---- MODULE Spec2Model ----
(***************************************************************************)
(* State-machine model of the MSBT-yuina image viewer (src/src/main.rs):   *)
(* the ImageViewer fields, the per-frame handler ImageViewer::update, the  *)
(* loaders, the navigation list and the mouse gesture recogniser.          *)
(*                                                                         *)
(* Numbers.  The program computes in f32.  The model computes with exact   *)
(* rationals <<n, d>> (d > 0, lowest terms): every f32 operation is        *)
(* modelled by the real operation it rounds, so an equality of the model   *)
(* is an equality "within floating-point epsilon" of the program.          *)
(* A Vec2 / Pos2 is a pair <<x, y>> of rationals.  u32 sizes are pairs of  *)
(* integers.  Option<T> is <<>> (None) or <<x>> (Some(x)).                  *)
(***************************************************************************)
EXTENDS Integers, Sequences, FiniteSets, TLC

(***************************************************************************)
(* Exact rational arithmetic                                               *)
(***************************************************************************)
Abs(x) == IF x < 0 THEN -x ELSE x

RECURSIVE GCD(_, _)
GCD(a, b) == IF b = 0 THEN a ELSE GCD(b, a % b)

R(n, d) ==
    LET g == GCD(Abs(n), Abs(d))
        s == IF d < 0 THEN -1 ELSE 1
    IN  << (s * n) \div g, (s * d) \div g >>

I(n) == << n, 1 >>

\* the operations cancel common factors before they multiply
RAdd(a, b) ==
    LET g == GCD(a[2], b[2])
    IN  R(a[1] * (b[2] \div g) + b[1] * (a[2] \div g), (a[2] \div g) * b[2])
RNeg(a)    == << -a[1], a[2] >>
RSub(a, b) == RAdd(a, RNeg(b))
RMul(a, b) ==
    LET g1 == GCD(Abs(a[1]), b[2])
        g2 == GCD(Abs(b[1]), a[2])
    IN  R((a[1] \div g1) * (b[1] \div g2), (a[2] \div g2) * (b[2] \div g1))
RDiv(a, b) == RMul(a, IF b[1] < 0 THEN << -b[2], -b[1] >> ELSE << b[2], b[1] >>)
RLt(a, b)  ==
    LET g == GCD(a[2], b[2])
    IN  a[1] * (b[2] \div g) < b[1] * (a[2] \div g)
RLe(a, b)  == ~RLt(b, a)
RAbs(a)    == << Abs(a[1]), a[2] >>
RMin(a, b) == IF RLt(b, a) THEN b ELSE a
\* f32::ceil followed by `as u32` (which saturates a negative value to 0)
RCeilU32(a) == IF a[1] <= 0 THEN 0 ELSE -((-a[1]) \div a[2])
\* f32::clamp(lo, hi)
RClamp(x, lo, hi) == IF RLt(x, lo) THEN lo ELSE IF RLt(hi, x) THEN hi ELSE x

V(x, y)       == << I(x), I(y) >>
VZero         == V(0, 0)
VAdd(a, b)    == << RAdd(a[1], b[1]), RAdd(a[2], b[2]) >>
VSub(a, b)    == << RSub(a[1], b[1]), RSub(a[2], b[2]) >>
VMul(a, r)    == << RMul(a[1], r), RMul(a[2], r) >>
VDiv(a, r)    == << RDiv(a[1], r), RDiv(a[2], r) >>
VHalf(a)      == VMul(a, R(1, 2))

None    == << >>
Some(x) == << x >>

(***************************************************************************)
(* Program constants                                                       *)
(***************************************************************************)
\* clamp(0.1, 10.0) of every zoom
ScaleMin == R(1, 10)
ScaleMax == I(10)
\* keyboard zoom step: scale * 1.1, scale / 1.1
KeyZoomStep == R(11, 10)
\* default_wheel_zoom_factor
WheelZoomFactor == R(1, 1000)
\* the re-rasterisation band: last_scale * 1.05, last_scale * 0.95
BandHigh == R(105, 100)
BandLow  == R(95, 100)
\* MouseGesture::new: threshold 20.0, and at most 5 recorded directions
threshold == 20
MaxDirections == 5

(***************************************************************************)
(* The environment: the files of the one directory the viewer looks at.    *)
(* A path is a number; PathBuf's ordering is the numeric order.            *)
(*   ext      the extension, lower-cased ("" when the path has none)       *)
(*   ok       fs::read_to_string + Tree::from_str (svg) or image::open     *)
(*            succeed                                                      *)
(*   size     the decoded size in pixels (tree.size() truncated to u32)    *)
(***************************************************************************)
FileInfo ==
    ( 1 :> [ext |-> "svg", ok |-> TRUE,  size |-> << 100, 100 >>] ) @@
    ( 2 :> [ext |-> "png", ok |-> TRUE,  size |-> << 16, 16 >>] )   @@
    ( 3 :> [ext |-> "png", ok |-> FALSE, size |-> << 0, 0 >>] )     @@
    ( 4 :> [ext |-> "png", ok |-> TRUE,  size |-> << 2400, 1800 >>] ) @@
    ( 5 :> [ext |-> "",    ok |-> FALSE, size |-> << 0, 0 >>] )     @@
    ( 6 :> [ext |-> "svg", ok |-> TRUE,  size |-> << 200, 100 >>] ) @@
    ( 7 :> [ext |-> "tiff", ok |-> TRUE, size |-> << 50, 50 >>] )

Files == DOMAIN FileInfo

\* the extensions update_image_list keeps
ListedExt == { "jpg", "jpeg", "png", "gif", "webp", "bmp", "svg" }

\* available_rect.min of the central panel (below the menu bar)
RectMin == V(0, 24)

VARIABLES
    initial_display_mode,   \* config.initial_display_mode: "fit" | "original"
    current_image,          \* Option<LoadedImage>
    current_path,           \* Option<PathBuf>
    image_size,             \* Option<[u32; 2]>
    scale,                  \* f32
    pan_offset,             \* Vec2
    image_paths,            \* Vec<PathBuf>
    last_available_size,    \* Option<Vec2>
    mouse_gesture,          \* MouseGesture
    crashed,                \* the process panicked
    window,                 \* environment: the size of the available rect
    ticks,                  \* number of frames run so far
    budget,                 \* number of frames the run may take
    ev                      \* what the last frame did (history)

vars == << initial_display_mode, current_image, current_path, image_size, scale,
           pan_offset, image_paths, last_available_size, mouse_gesture, crashed,
           window, ticks, budget, ev >>

\* the viewer as one value, for the functions below
Self ==
    [ initial_display_mode |-> initial_display_mode,
      current_image        |-> current_image,
      current_path         |-> current_path,
      image_size           |-> image_size,
      scale                |-> scale,
      pan_offset           |-> pan_offset,
      image_paths          |-> image_paths,
      last_available_size  |-> last_available_size,
      mouse_gesture        |-> mouse_gesture,
      crashed              |-> crashed,
      fits                 |-> << >>,      \* history: the fit_to_screen calls of the frame
      loads                |-> << >>,      \* history: the load_image calls of the frame
      lists                |-> << >>,      \* history: the update_image_list calls
      navs                 |-> << >> ]     \* history: the load_adjacent_image calls

\* A texture: its pixel size and the scale transform it was rendered with.
Texture(size, rendered_scale) == [ size |-> size, rendered_scale |-> rendered_scale ]

Raster(texture, path) == [ kind |-> "Raster", texture |-> texture, path |-> path ]
Svg(original_size, texture, last_scale, path) ==
    [ kind |-> "Svg", original_size |-> original_size, texture |-> texture,
      last_scale |-> last_scale, path |-> path ]

\* tiny_skia::Pixmap::new(width, height): None for a zero dimension, and None
\* when the buffer cannot be allocated (alloc_ok, the environment's answer)
\* the size of the image itself: the decoded bitmap's, or the vector document's
IntrinsicSize(image) ==
    IF image.kind = "Svg" THEN image.original_size ELSE image.texture.size

PixmapNew(width, height, alloc_ok) == width > 0 /\ height > 0 /\ alloc_ok

MouseGestureNew == [ is_active |-> FALSE, last_pos |-> None, directions |-> << >> ]

(***************************************************************************)
(* ImageViewer::fit_to_screen                                              *)
(***************************************************************************)
FitScaleWrongBranch(size, available_size) ==
    LET image_aspect  == R(size[1], size[2])
        screen_aspect == RDiv(available_size[1], available_size[2])
    IN  IF RLt(image_aspect, screen_aspect)
        THEN RDiv(available_size[1], I(size[1]))
        ELSE RDiv(available_size[2], I(size[2]))

FitScale(size, available_size) ==
    LET image_aspect  == R(size[1], size[2])
        screen_aspect == RDiv(available_size[1], available_size[2])
    IN  IF RLt(screen_aspect, image_aspect)
        THEN RDiv(available_size[1], I(size[1]))
        ELSE RDiv(available_size[2], I(size[2]))

fit_to_screen(self, available_size) ==
    IF self.image_size # None
    THEN LET size == self.image_size[1]
             s    == FitScale(size, available_size)
         IN  [ self EXCEPT !.scale = s,
                           !.fits  = Append(@, [ size |-> size, available |-> available_size,
                                                  scale |-> s ]) ]
    ELSE self

(***************************************************************************)
(* ImageViewer::load_svg, load_raster, load_image.  Each returns the       *)
(* viewer and the bool the function returns.                               *)
(***************************************************************************)
load_svg(self, path, alloc_ok) ==
    LET info == FileInfo[path] IN
    IF info.ok
    THEN LET width  == info.size[1]
             height == info.size[2]
             s1     == [ self EXCEPT !.image_size = Some(<< width, height >>) ]
         IN  IF PixmapNew(width, height, alloc_ok)
             THEN [ self   |-> [ s1 EXCEPT !.current_image =
                                   Some(Svg(<< width, height >>,
                                            Texture(<< width, height >>, I(1)),
                                            I(1), path)) ],
                    result |-> TRUE ]
             ELSE [ self |-> s1, result |-> FALSE ]
    ELSE [ self |-> self, result |-> FALSE ]

\* lines 450-452 and of load_raster: fit when the mode is "fit"
FitIfConfigured(self, available_size) ==
    IF self.initial_display_mode = "fit" THEN fit_to_screen(self, available_size) ELSE self

load_raster(self, path, available_size) ==
    LET info == FileInfo[path] IN
    IF info.ok
    THEN [ self   |-> [ FitIfConfigured([ self EXCEPT !.image_size = Some(info.size) ],
                                        available_size)
                        EXCEPT !.current_image =
                                   Some(Raster(Texture(info.size, I(1)), path)) ],
           result |-> TRUE ]
    ELSE [ self |-> self, result |-> FALSE ]

\* lines 425-427
LoadReset(self) ==
    [ self EXCEPT !.pan_offset = VZero, !.scale = I(1), !.image_size = None ]

\* lines 429-445: by the extension, load_svg or load_raster
LoadByExtension(self, path, available_size, alloc_ok) ==
    IF FileInfo[path].ext # ""
    THEN IF FileInfo[path].ext = "svg"
         THEN load_svg(self, path, alloc_ok)
         ELSE load_raster(self, path, available_size)
    ELSE [ self |-> self, result |-> FALSE ]

\* what is displayed and how: the image and the view state
View(self) ==
    [ current_image |-> self.current_image, current_path |-> self.current_path,
      image_size |-> self.image_size, scale |-> self.scale,
      pan_offset |-> self.pan_offset ]

\* a load that keeps the path whether or not it succeeded
LoadResultKeepsPath(r, path, available_size) ==
    [ self   |-> IF r.result
                 THEN FitIfConfigured([ r.self EXCEPT !.current_path = Some(path) ],
                                      available_size)
                 ELSE [ r.self EXCEPT !.current_path = Some(path) ],
      result |-> r.result ]

\* lines 447-455: after a success, the path is kept and the image fitted
LoadResult(r, path, available_size) ==
    [ self   |-> IF r.result
                 THEN FitIfConfigured([ r.self EXCEPT !.current_path = Some(path) ],
                                      available_size)
                 ELSE r.self,
      result |-> r.result ]

\* the call is added to the history, with the view before and after it
LoadRecorded(before, r, path) ==
    [ self   |-> [ r.self EXCEPT !.loads = Append(@, [ path   |-> path,
                                                       result |-> r.result,
                                                       before |-> View(before),
                                                       after  |-> View(r.self) ]) ],
      result |-> r.result ]

load_image(self, path, available_size, alloc_ok) ==
    LoadRecorded(self,
                 LoadResult(LoadByExtension(LoadReset(self), path, available_size, alloc_ok),
                            path, available_size),
                 path)

(***************************************************************************)
(* ImageViewer::update_image_list.  dir is what fs::read_dir answers for   *)
(* the parent directory: None (an error) or Some(the set of its paths).    *)
(***************************************************************************)
RECURSIVE SortedSeq(_)
SortedSeq(S) ==
    IF S = {} THEN << >>
    ELSE LET m == CHOOSE x \in S : \A y \in S : x <= y
         IN  << m >> \o SortedSeq(S \ { m })

\* a list that is emptied when the directory cannot be read
ListOfClearsOnFailure(self, dir) ==
    IF dir # None
    THEN SortedSeq({ p \in dir[1] : FileInfo[p].ext \in ListedExt })
    ELSE << >>

\* lines 558-590: the list after the call
ListOf(self, dir) ==
    IF dir # None
    THEN SortedSeq({ p \in dir[1] : FileInfo[p].ext \in ListedExt })
    ELSE self.image_paths

update_image_list(self, current, dir) ==
    [ self EXCEPT !.image_paths = ListOf(self, dir),
                  !.lists       = Append(@, [ read_ok |-> dir # None,
                                              before  |-> self.image_paths,
                                              after   |-> ListOf(self, dir) ]) ]

(***************************************************************************)
(* ImageViewer::load_adjacent_image.  Indices are 0-based as in the code.  *)
(* image_paths.len() - 1 on an empty list underflows usize: a panic in a   *)
(* build with overflow checks, usize::MAX (and so no entry) without.       *)
(***************************************************************************)
Position(seq, x) ==
    IF \E i \in 1..Len(seq) : seq[i] = x
    THEN Some((CHOOSE i \in 1..Len(seq) : seq[i] = x /\ \A j \in 1..(i - 1) : seq[j] # x) - 1)
    ELSE None

UsizeMax == -1   \* stands for usize::MAX: an index no list has

\* an index that stops at the ends of the list
NewIndexNoWrap(paths, current_index, next) ==
    IF next
    THEN IF current_index + 1 < Len(paths) THEN current_index + 1 ELSE current_index
    ELSE IF current_index > 0 THEN current_index - 1 ELSE 0

\* lines 602-614
NewIndex(paths, current_index, next) ==
    IF next
    THEN IF current_index + 1 < Len(paths) THEN current_index + 1 ELSE 0
    ELSE IF current_index > 0 THEN current_index - 1
         ELSE IF Len(paths) = 0 THEN UsizeMax ELSE Len(paths) - 1

\* lines 597-601: position(..).unwrap_or(0)
CurrentIndex(self) ==
    IF Position(self.image_paths, self.current_path[1]) # None
    THEN Position(self.image_paths, self.current_path[1])[1]
    ELSE 0

\* lines 602-617: the panic of the underflow, or the load of the entry if there is one
AdjacentLoad(self, new_index, available_size, alloc_ok, overflow_checks) ==
    IF new_index = UsizeMax /\ overflow_checks
    THEN [ self EXCEPT !.crashed = TRUE ]
    ELSE IF new_index >= 0 /\ new_index < Len(self.image_paths)
         THEN load_image(self, self.image_paths[new_index + 1], available_size, alloc_ok).self
         ELSE self

\* the call is added to the history: what it saw, the index it computed, the
\* load it made (if any) and the view before and after it
NavRecorded(before, after, next, new_index) ==
    [ after EXCEPT !.navs = Append(@,
        [ next          |-> next,
          paths         |-> before.image_paths,
          current_path  |-> before.current_path,
          current_index |-> CurrentIndex(before),
          new_index     |-> new_index,
          loaded        |-> Len(after.loads) > Len(before.loads),
          target        |-> IF Len(after.loads) > Len(before.loads)
                            THEN Some(after.loads[Len(before.loads) + 1].path) ELSE None,
          result        |-> Len(after.loads) > Len(before.loads)
                            /\ after.loads[Len(before.loads) + 1].result,
          crashed       |-> after.crashed,
          paths_after   |-> after.image_paths,
          view_before   |-> View(before),
          view_after    |-> View(after) ]) ]

load_adjacent_image(self, next, available_size, alloc_ok, overflow_checks) ==
    IF self.current_path # None
    THEN NavRecorded(self,
                     AdjacentLoad(self, NewIndex(self.image_paths, CurrentIndex(self), next),
                                  available_size, alloc_ok, overflow_checks),
                     next, NewIndex(self.image_paths, CurrentIndex(self), next))
    ELSE self

(***************************************************************************)
(* MouseGesture::get_action, MouseGesture::update                          *)
(***************************************************************************)
\* an action for the first direction recorded, however many follow
get_action_of_first(g) ==
    IF Len(g.directions) >= 1
    THEN CASE g.directions[1] = "Left"  -> Some("<<<")
           [] g.directions[1] = "Right" -> Some(">>>")
           [] OTHER                     -> None
    ELSE None

\* lines 262-272
get_action(g) ==
    IF Len(g.directions) = 1
    THEN CASE g.directions[1] = "Left"  -> Some("<<<")
           [] g.directions[1] = "Right" -> Some(">>>")
           [] OTHER                     -> None
    ELSE None

\* a reset that keeps the directions
reset_keeps_directions(g) ==
    [ g EXCEPT !.is_active = FALSE, !.last_pos = None ]

\* lines 256-260
reset(g) ==
    [ g EXCEPT !.is_active = FALSE, !.last_pos = None, !.directions = << >> ]

\* delta.length() >= threshold, compared on the squares
LengthAtLeast(delta, t) ==
    RLe(I(t * t), RAdd(RMul(delta[1], delta[1]), RMul(delta[2], delta[2])))

\* a classification that takes a tie for horizontal
DirectionTieHorizontal(delta) ==
    IF RLe(RAbs(delta[2]), RAbs(delta[1]))
    THEN IF RLt(I(0), delta[1]) THEN "Right" ELSE "Left"
    ELSE IF RLt(I(0), delta[2]) THEN "Down" ELSE "Up"

\* lines 285-297
Direction(delta) ==
    IF RLt(RAbs(delta[2]), RAbs(delta[1]))
    THEN IF RLt(I(0), delta[1]) THEN "Right" ELSE "Left"
    ELSE IF RLt(I(0), delta[2]) THEN "Down" ELSE "Up"

\* a push without the comparison with the last direction
PushDirectionAlways(directions, dir) ==
    IF Len(directions) < MaxDirections THEN Append(directions, dir) ELSE directions

\* a push without the limit on the length
PushDirectionNoLimit(directions, dir) ==
    IF directions = << >> \/ directions[Len(directions)] # dir
    THEN Append(directions, dir)
    ELSE directions

\* lines 299-304: the direction is pushed when there is room and it differs from the last
PushDirection(directions, dir) ==
    IF Len(directions) < MaxDirections
       /\ (directions = << >> \/ directions[Len(directions)] # dir)
    THEN Append(directions, dir)
    ELSE directions

\* an update that resolves the stroke at every sample
gesture_update_eager(g, mouse_pos, right_button) ==
    IF right_button
    THEN IF ~g.is_active
         THEN [ g |-> [ g EXCEPT !.is_active = TRUE, !.last_pos = Some(mouse_pos) ],
                action |-> None ]
         ELSE IF g.last_pos # None
                 /\ LengthAtLeast(VSub(mouse_pos, g.last_pos[1]), threshold)
              THEN [ g |-> [ g EXCEPT
                               !.directions =
                                   PushDirection(@, Direction(VSub(mouse_pos, g.last_pos[1]))),
                               !.last_pos = Some(mouse_pos) ],
                     action |-> get_action(g) ]
              ELSE [ g |-> g, action |-> None ]
    ELSE IF g.is_active
         THEN [ g |-> reset(g), action |-> get_action(g) ]
         ELSE [ g |-> g, action |-> None ]

\* lines 274-312
gesture_update(g, mouse_pos, right_button) ==
    IF right_button
    THEN IF ~g.is_active
         THEN [ g |-> [ g EXCEPT !.is_active = TRUE, !.last_pos = Some(mouse_pos) ],
                action |-> None ]
         ELSE IF g.last_pos # None
                 /\ LengthAtLeast(VSub(mouse_pos, g.last_pos[1]), threshold)
              THEN [ g |-> [ g EXCEPT
                               !.directions =
                                   PushDirection(@, Direction(VSub(mouse_pos, g.last_pos[1]))),
                               !.last_pos = Some(mouse_pos) ],
                     action |-> None ]
              ELSE [ g |-> g, action |-> None ]
    ELSE IF g.is_active
         THEN [ g |-> reset(g), action |-> get_action(g) ]
         ELSE [ g |-> g, action |-> None ]

(***************************************************************************)
(* ImageViewer::update, one frame.  `in` is the frame's input snapshot:    *)
(*   dropped        Option<path>: a file dropped on the window             *)
(*   open_clicked   File > Open was clicked                                *)
(*   picked         Option<path>: what the file dialog returned            *)
(*   mode_sel       Option<mode>: a Display Mode radio button was chosen   *)
(*   dir            what fs::read_dir answers (see update_image_list)      *)
(*   available      size of the available rect of the frame                *)
(*   key            the key the else-if chain of the key handling takes    *)
(*   zoom_key       "Plus", "Minus" or "None"                              *)
(*   dragged, drag_delta, secondary_down, scroll_delta, hover_pos,         *)
(*   pointer_pos    the pointer's state                                    *)
(*   alloc_ok       Pixmap::new succeeds in a load of this frame           *)
(*   render_alloc_ok  Pixmap::new succeeds in the re-render of this frame  *)
(*   overflow_checks  the build panics on integer overflow                 *)
(* The phases follow the order of the code.                                *)
(***************************************************************************)
SizeVec(size) == V(size[1], size[2])

\* lines 629-635 and 641-648: load_image then update_image_list
OpenPath(self, path, in) ==
    update_image_list(load_image(self, path, in.available, in.alloc_ok).self, path, in.dir)

DropPhase(self, in) ==
    IF in.dropped # None THEN OpenPath(self, in.dropped[1], in) ELSE self

MenuPhase(self, in) ==
    [ (IF in.open_clicked /\ in.picked # None
       THEN OpenPath(self, in.picked[1], in) ELSE self)
      EXCEPT !.initial_display_mode = IF in.mode_sel # None THEN in.mode_sel[1] ELSE @ ]

ReloadPhase(self, in) ==
    IF self.current_image = None /\ self.current_path # None
    THEN load_image(self, self.current_path[1], in.available, in.alloc_ok).self
    ELSE self

\* a resize check that also recentres the image
ResizePhaseRecentres(self, in) ==
    IF self.initial_display_mode = "fit"
       /\ (self.last_available_size = None \/ self.last_available_size[1] # in.available)
    THEN [ fit_to_screen(self, in.available) EXCEPT
             !.last_available_size = Some(in.available), !.pan_offset = VZero ]
    ELSE self

\* a resize check that fits in every frame of 'fit' mode
ResizePhaseEveryFrame(self, in) ==
    IF self.initial_display_mode = "fit"
    THEN [ fit_to_screen(self, in.available) EXCEPT
             !.last_available_size = Some(in.available) ]
    ELSE self

ResizePhase(self, in) ==
    IF self.initial_display_mode = "fit"
       /\ (self.last_available_size = None \/ self.last_available_size[1] # in.available)
    THEN [ fit_to_screen(self, in.available) EXCEPT
             !.last_available_size = Some(in.available) ]
    ELSE self

\* re-render conditions with a band of 4% and of 1%
NeedsRerenderLoose(s, last_scale) ==
    RLt(RMul(last_scale, R(104, 100)), s) \/ RLt(s, RMul(last_scale, R(96, 100)))

NeedsRerenderTight(s, last_scale) ==
    RLt(RMul(last_scale, R(101, 100)), s) \/ RLt(s, RMul(last_scale, R(99, 100)))

\* line 716: the re-render condition
NeedsRerender(s, last_scale) ==
    RLt(RMul(last_scale, BandHigh), s) \/ RLt(s, RMul(last_scale, BandLow))

\* lines 717-718
RenderSize(original_size, s) ==
    << RCeilU32(RMul(I(original_size[1]), s)), RCeilU32(RMul(I(original_size[2]), s)) >>

\* lines 722-730 with the last_scale update left out
RerenderKeepLastScale(image, s, alloc_ok) ==
    LET size == RenderSize(image.original_size, s) IN
    IF PixmapNew(size[1], size[2], alloc_ok)
    THEN [ image EXCEPT !.texture = Texture(size, s) ]
    ELSE image

\* a re-render that records the scale although the allocation failed
RerenderMarksOnFailure(image, s, alloc_ok) ==
    LET size == RenderSize(image.original_size, s) IN
    IF PixmapNew(size[1], size[2], alloc_ok)
    THEN [ image EXCEPT !.texture = Texture(size, s), !.last_scale = s ]
    ELSE [ image EXCEPT !.last_scale = s ]

\* lines 717-730: the image after a triggered re-render
Rerender(image, s, alloc_ok) ==
    LET size == RenderSize(image.original_size, s) IN
    IF PixmapNew(size[1], size[2], alloc_ok)
    THEN [ image EXCEPT !.texture = Texture(size, s), !.last_scale = s ]
    ELSE image

\* lines 708-732; `triggered` tells whether the condition of line 716 held
RerenderPhase(self, in) ==
    IF self.current_image # None /\ self.current_image[1].kind = "Svg"
       /\ NeedsRerender(self.scale, self.current_image[1].last_scale)
    THEN [ self |-> [ self EXCEPT !.current_image =
                        Some(Rerender(self.current_image[1], self.scale,
                                      in.render_alloc_ok)) ],
           triggered |-> TRUE ]
    ELSE [ self |-> self, triggered |-> FALSE ]

\* line 743: the top-left corner of the image
Placement(available_size, scaled_size, pan) ==
    VAdd(VAdd(RectMin, VHalf(VSub(available_size, scaled_size))), pan)

\* lines 755-777
KeyPhase(self, in) ==
    CASE in.key = "ArrowRight" ->
            load_adjacent_image(self, TRUE, in.available, in.alloc_ok, in.overflow_checks)
      [] in.key = "ArrowLeft" ->
            load_adjacent_image(self, FALSE, in.available, in.alloc_ok, in.overflow_checks)
      [] in.key = "F" ->
            fit_to_screen([ self EXCEPT !.pan_offset = VZero ], in.available)
      [] in.key = "Num0" ->
            [ self EXCEPT !.pan_offset = VZero, !.scale = I(1) ]
      [] in.key = "O" ->
            IF in.picked # None THEN OpenPath(self, in.picked[1], in) ELSE self
      [] OTHER -> self

\* a keyboard zoom that leaves the pan offset alone
KeyZoomPanUnchanged(pan, available_size, scaled_size, new_scale, old_scale) == pan

\* lines 785-788 / 793-796: the pan offset after a keyboard zoom
KeyZoomPan(pan, available_size, scaled_size, new_scale, old_scale) ==
    LET image_center       == VAdd(RectMin, VHalf(available_size))
        image_pos          == Placement(available_size, scaled_size, pan)
        offset_from_center == VSub(image_pos, image_center)
        ratio              == RDiv(new_scale, old_scale)
    IN  VSub(VSub(VAdd(image_center, VMul(offset_from_center, ratio)), RectMin),
             VHalf(VSub(available_size, VMul(scaled_size, ratio))))

\* lines 782 and 790
KeyZoomScale(s, zoom_key) ==
    IF zoom_key = "Plus"
    THEN RClamp(RMul(s, KeyZoomStep), ScaleMin, ScaleMax)
    ELSE RClamp(RDiv(s, KeyZoomStep), ScaleMin, ScaleMax)

\* lines 781-797
KeyZoomPhase(self, in, old_scale, scaled_size) ==
    IF in.zoom_key \in { "Plus", "Minus" }
    THEN LET new_scale == KeyZoomScale(self.scale, in.zoom_key)
         IN  [ self EXCEPT !.scale = new_scale,
                           !.pan_offset = KeyZoomPan(self.pan_offset, in.available,
                                                     scaled_size, new_scale, old_scale) ]
    ELSE self

\* a pan that does not look at the secondary button
DragPhaseIgnoresButton(self, in) ==
    IF in.dragged
    THEN [ self EXCEPT !.pan_offset = VAdd(@, in.drag_delta) ]
    ELSE self

\* lines 805-807
DragPhase(self, in) ==
    IF in.dragged /\ ~in.secondary_down
    THEN [ self EXCEPT !.pan_offset = VAdd(@, in.drag_delta) ]
    ELSE self

WheelScaleNoClamp(s, wheel_delta) ==
    RMul(s, RAdd(I(1), RMul(wheel_delta, WheelZoomFactor)))

\* lines 811-812
WheelScale(s, wheel_delta) ==
    LET zoom_factor == RAdd(I(1), RMul(wheel_delta, WheelZoomFactor))
    IN  RClamp(RMul(s, zoom_factor), ScaleMin, ScaleMax)

\* the anchor math with the scaled size of the old scale
WheelPanStaleSize(pan, cursor_pos, available_size, scaled_size, new_scale, old_scale) ==
    LET image_pos     == Placement(available_size, scaled_size, pan)
        rel_pos       == VDiv(VSub(cursor_pos, image_pos), old_scale)
        new_image_pos == VSub(cursor_pos, VMul(rel_pos, new_scale))
    IN  VSub(VSub(new_image_pos, RectMin), VHalf(VSub(available_size, scaled_size)))

\* lines 817-825: the pan offset after a wheel zoom with the cursor hovering
WheelPan(pan, cursor_pos, available_size, scaled_size, new_scale, old_scale) ==
    LET image_pos     == Placement(available_size, scaled_size, pan)
        rel_pos       == VDiv(VSub(cursor_pos, image_pos), old_scale)
        new_image_pos == VSub(cursor_pos, VMul(rel_pos, new_scale))
    IN  VSub(VSub(new_image_pos, RectMin),
             VHalf(VSub(available_size, VMul(scaled_size, RDiv(new_scale, old_scale)))))

\* lines 809-827
WheelPhase(self, in, old_scale, scaled_size) ==
    IF in.scroll_delta # I(0)
    THEN LET new_scale == WheelScale(self.scale, in.scroll_delta)
         IN  [ self EXCEPT
                 !.scale = new_scale,
                 !.pan_offset =
                     IF in.hover_pos # None
                     THEN WheelPan(self.pan_offset, in.hover_pos[1], in.available,
                                   scaled_size, new_scale, old_scale)
                     ELSE @ ]
    ELSE self

\* line 834: what mouse_gesture.update returns in this frame
GestureAction(self, in) ==
    gesture_update(self.mouse_gesture,
                   IF in.pointer_pos # None THEN in.pointer_pos[1] ELSE VZero,
                   in.secondary_down).action

\* lines 830-840
GesturePhase(self, in) ==
    LET mouse_pos == IF in.pointer_pos # None THEN in.pointer_pos[1] ELSE VZero
        r         == gesture_update(self.mouse_gesture, mouse_pos, in.secondary_down)
        s1        == [ self EXCEPT !.mouse_gesture = r.g ]
    IN  IF r.action = Some("<<<")
        THEN load_adjacent_image(s1, FALSE, in.available, in.alloc_ok, in.overflow_checks)
        ELSE IF r.action = Some(">>>")
             THEN load_adjacent_image(s1, TRUE, in.available, in.alloc_ok, in.overflow_checks)
             ELSE s1

(***************************************************************************)
(* The frame as a whole: the viewer after it, and what it did (ev).        *)
(*   fits, loads, lists  the fit_to_screen, load_image and                 *)
(*          update_image_list calls, in order; navs: the                   *)
(*          load_adjacent_image calls that found a current path            *)
(*   rr     the re-render check: the scale it saw, the image before and    *)
(*          after, whether it was triggered                                *)
(*   drawn  the texture drawn, its scaled size and position                *)
(*   kz, wz the keyboard / wheel zoom: scale and pan before and after,     *)
(*          and the values the anchor math used                            *)
(*   drag   the pan by dragging: pan before and after                      *)
(*   key    the key of the key handling; action: the gesture's action      *)
(*   after_failure  the frame before this one failed to re-render          *)
(*   e2e    progress through the end-to-end scenario (see E2E below)       *)
(*   gesture  the mouse_gesture.update call: the gesture before and after, *)
(*          the button, the sample and the action returned                 *)
(*   stroke   the stroke since the last press (see StrokeNext below)       *)
(*   after_release  the frame before this one released a gesture that had  *)
(*          recorded directions                                            *)
(*   resize   the resize check: the viewer before and after it             *)
(*   keyed    the key handling, when a key was pressed: the viewer before  *)
(*          and after it                                                   *)
(*   held_before, acted_before  in the frame before this one the trigger   *)
(*          button was down / update returned an action                    *)
(***************************************************************************)
NoEv ==
    [ fits |-> << >>, loads |-> << >>, lists |-> << >>, navs |-> << >>, rr |-> None, drawn |-> None, key |-> "None",
      kz |-> None, wz |-> None, drag |-> None, action |-> None,
      after_failure |-> FALSE, e2e |-> [ loaded |-> FALSE, stage |-> 0 ],
      gesture |-> None, resize |-> None, keyed |-> None,
      held_before |-> FALSE, acted_before |-> FALSE,
      stroke |-> [ samples |-> 0, all_right |-> FALSE, perpendicular |-> FALSE ],
      after_release |-> FALSE ]

\* The frame runs on a context c: the viewer (self), the record of the frame
\* (ev) and the frame's locals texture_size, scaled_size and old_scale.
FrameStart(self) ==
    [ self |-> self, ev |-> NoEv,
      texture_size |-> VZero, scaled_size |-> VZero, old_scale |-> I(0) ]

\* lines 629-694
StepOpen(c, in) ==
    [ c EXCEPT !.self = ReloadPhase(MenuPhase(DropPhase(@, in), in), in) ]

\* lines 699-705
StepResizeAs(c, s, in) ==
    [ c EXCEPT !.self      = s,
               !.ev.resize = Some([ available |-> in.available,
                                    before    |-> c.self,
                                    after     |-> s ]) ]

StepResize(c, in) == StepResizeAs(c, ResizePhase(c.self, in), in)

\* lines 708-732
StepRerenderAs(c, r, in) ==
    [ c EXCEPT !.self  = r.self,
               !.ev.rr = IF c.self.current_image # None /\ c.self.current_image[1].kind = "Svg"
                         THEN Some([ scale     |-> c.self.scale,
                                     before    |-> c.self.current_image[1],
                                     after     |-> r.self.current_image[1],
                                     triggered |-> r.triggered,
                                     alloc_ok  |-> in.render_alloc_ok ])
                         ELSE None ]

StepRerender(c, in) == StepRerenderAs(c, RerenderPhase(c.self, in), in)

\* lines 736-752
StepDrawAs(c, texture_size, scaled_size, in) ==
    [ c EXCEPT !.texture_size = texture_size,
               !.scaled_size  = scaled_size,
               !.ev.drawn     =
                   Some([ texture     |-> c.self.current_image[1].texture,
                          intrinsic   |-> IntrinsicSize(c.self.current_image[1]),
                          scaled_size |-> scaled_size,
                          pos         |-> Placement(in.available, scaled_size,
                                                    c.self.pan_offset),
                          scale       |-> c.self.scale ]) ]

StepDraw(c, in) ==
    StepDrawAs(c, SizeVec(c.self.current_image[1].texture.size),
               VMul(SizeVec(c.self.current_image[1].texture.size), c.self.scale), in)

\* lines 755-779: the keys, then `let old_scale = self.scale`
StepKeyAs(c, s, in) ==
    [ c EXCEPT !.self = s, !.ev.key = in.key, !.old_scale = s.scale,
               !.ev.keyed = IF in.key # "None"
                            THEN Some([ key       |-> in.key,
                                        available |-> in.available,
                                        before    |-> c.self,
                                        after     |-> s ])
                            ELSE None ]

StepKey(c, in) == StepKeyAs(c, KeyPhase(c.self, in), in)

\* lines 781-797
StepKeyZoomAs(c, s, in) ==
    [ c EXCEPT !.self  = s,
               !.ev.kz = IF in.zoom_key \in { "Plus", "Minus" }
                         THEN Some([ key          |-> in.zoom_key,
                                     scale_before |-> c.self.scale,
                                     pan_before   |-> c.self.pan_offset,
                                     scale_after  |-> s.scale,
                                     pan_after    |-> s.pan_offset,
                                     texture_size |-> c.texture_size,
                                     scale_drawn  |-> c.ev.drawn[1].scale,
                                     hover_pos    |-> in.hover_pos ])
                         ELSE None ]

StepKeyZoom(c, in) ==
    StepKeyZoomAs(c, KeyZoomPhase(c.self, in, c.old_scale, c.scaled_size), in)

\* lines 799-807
StepDragAs(c, s, in) ==
    [ c EXCEPT !.self    = s,
               !.ev.drag = IF in.dragged
                           THEN Some([ delta          |-> in.drag_delta,
                                       secondary_down |-> in.secondary_down,
                                       scale_before   |-> c.self.scale,
                                       scale_after    |-> s.scale,
                                       pan_before     |-> c.self.pan_offset,
                                       pan_after      |-> s.pan_offset ])
                           ELSE None ]

StepDrag(c, in) == StepDragAs(c, DragPhase(c.self, in), in)

\* lines 809-827
StepWheelAs(c, s, in) ==
    [ c EXCEPT !.self  = s,
               !.ev.wz = IF in.scroll_delta # I(0)
                         THEN Some([ scroll_delta |-> in.scroll_delta,
                                     old_scale    |-> c.old_scale,
                                     scale_before |-> c.self.scale,
                                     pan_before   |-> c.self.pan_offset,
                                     scale_after  |-> s.scale,
                                     pan_after    |-> s.pan_offset,
                                     texture_size |-> c.texture_size,
                                     scale_drawn  |-> c.ev.drawn[1].scale,
                                     hover_pos    |-> in.hover_pos ])
                         ELSE None ]

StepWheel(c, in) ==
    StepWheelAs(c, WheelPhase(c.self, in, c.old_scale, c.scaled_size), in)

\* lines 830-840
GestureRecord(g, r, in) ==
    [ before       |-> g,
      after        |-> r.g,
      action       |-> r.action,
      right_button |-> in.secondary_down,
      mouse_pos    |-> IF in.pointer_pos # None THEN in.pointer_pos[1] ELSE VZero ]

StepGesture(c, in) ==
    [ c EXCEPT !.self       = GesturePhase(@, in),
               !.ev.action  = GestureAction(c.self, in),
               !.ev.gesture =
                   Some(GestureRecord(
                            c.self.mouse_gesture,
                            gesture_update(c.self.mouse_gesture,
                                           IF in.pointer_pos # None
                                           THEN in.pointer_pos[1] ELSE VZero,
                                           in.secondary_down),
                            in)) ]

\* the viewer after the frame, and the record of the frame
FrameEnd(c) ==
    [ self |-> c.self,
      ev   |-> [ c.ev EXCEPT !.fits = c.self.fits, !.loads = c.self.loads,
                             !.lists = c.self.lists, !.navs = c.self.navs ] ]

\* lines 779-840; a panic in the key handling ends the frame
FrameInput(c, in) ==
    IF c.self.crashed
    THEN FrameEnd(c)
    ELSE FrameEnd(StepGesture(StepWheel(StepDrag(StepKeyZoom(c, in), in), in), in))

\* lines 735-840: only with an image loaded
FrameImage(c, in) ==
    IF c.self.current_image = None
    THEN FrameEnd(c)
    ELSE FrameInput(StepKey(StepDraw(c, in), in), in)

Frame(self, in) ==
    FrameImage(StepRerender(StepResize(StepOpen(FrameStart(self), in), in), in), in)

\* a triggered re-render that left the texture as it was
RerenderFailed(e) ==
    e.rr # None /\ e.rr[1].triggered /\ e.rr[1].after.texture = e.rr[1].before.texture

(***************************************************************************)
(* History of the end-to-end scenario of a vector document of intrinsic    *)
(* size 100x100.                                                           *)
(*   loaded   the document was loaded at scale 1.0, and nothing loaded     *)
(*            since                                                        *)
(*   stage 1  loaded, the cache untouched since                            *)
(*   stage 2  from stage 1, a frame saw scale 1.5, its allocation          *)
(*            succeeding                                                   *)
(*   stage 3  from stage 2, a frame saw scale 1.52                         *)
(***************************************************************************)
E2ESize == << 100, 100 >>

E2ELoaded(image, s) ==
    /\ image # None /\ image[1].kind = "Svg" /\ image[1].original_size = E2ESize
    /\ s = I(1)

E2ENext(old, e, self) ==
    IF e.loads # << >>
    THEN IF e.loads[Len(e.loads)].result /\ e.rr # None
            /\ E2ELoaded(Some(e.rr[1].before), e.rr[1].scale) /\ ~e.rr[1].triggered
         THEN [ loaded |-> TRUE, stage |-> 1 ]
         ELSE [ loaded |-> FALSE, stage |-> 0 ]
    ELSE IF e.rr = None THEN [ loaded |-> FALSE, stage |-> 0 ]
    ELSE LET r == e.rr[1] IN
         [ loaded |-> old.loaded,
           stage  |->
             CASE old.stage = 1 /\ r.scale = R(3, 2) /\ r.alloc_ok   -> 2
               [] old.stage = 2 /\ r.scale = R(152, 100)            -> 3
               [] old.stage \in { 1, 2, 3 } /\ ~r.triggered         -> old.stage
               [] OTHER                                            -> 0 ]

\* the variables take the viewer's fields
Becomes(self) ==
    /\ initial_display_mode' = self.initial_display_mode
    /\ current_image'        = self.current_image
    /\ current_path'         = self.current_path
    /\ image_size'           = self.image_size
    /\ scale'                = self.scale
    /\ pan_offset'           = self.pan_offset
    /\ image_paths'          = self.image_paths
    /\ last_available_size'  = self.last_available_size
    /\ mouse_gesture'        = self.mouse_gesture
    /\ crashed'              = self.crashed

(***************************************************************************)
(* History of the stroke since the last press of the trigger button.       *)
(*   samples        the samples taken after the press: 0, 1 or 2 (2 or     *)
(*                  more)                                                  *)
(*   all_right      every sample moved by at least the threshold to the    *)
(*                  right of the sample before it, on the same height      *)
(*   perpendicular  after some sample the last two directions recorded     *)
(*                  were a horizontal and a vertical one                   *)
(***************************************************************************)
Pressed(gr)  == gr.right_button /\ ~gr.before.is_active
Sampled(gr)  == gr.right_button /\ gr.before.is_active
Released(gr) == ~gr.right_button /\ gr.before.is_active

Horizontal(dir) == dir \in { "Left", "Right" }

LastTwoPerpendicular(directions) ==
    /\ Len(directions) >= 2
    /\ Horizontal(directions[Len(directions)]) # Horizontal(directions[Len(directions) - 1])

RightwardStep(from, to) ==
    /\ RLe(I(threshold), RSub(to[1], from[1]))
    /\ to[2] = from[2]

StrokeNext(old, e) ==
    IF e.gesture = None THEN old
    ELSE IF Pressed(e.gesture[1])
         THEN [ samples |-> 0, all_right |-> TRUE, perpendicular |-> FALSE ]
    ELSE IF Sampled(e.gesture[1])
         THEN [ samples       |-> IF old.samples < 2 THEN old.samples + 1 ELSE 2,
                all_right     |-> /\ old.all_right
                                  /\ e.gesture[1].before.last_pos # None
                                  /\ RightwardStep(e.gesture[1].before.last_pos[1],
                                                   e.gesture[1].mouse_pos),
                perpendicular |-> \/ old.perpendicular
                                  \/ LastTwoPerpendicular(e.gesture[1].after.directions) ]
    ELSE old

\* the frame's outcome becomes the state
Commit(r) ==
    /\ Becomes(r.self)
    /\ ev' = [ r.ev EXCEPT !.after_failure = RerenderFailed(ev),
                           !.e2e = E2ENext(ev.e2e, r.ev, r.self),
                           !.stroke = StrokeNext(ev.stroke, r.ev),
                           !.held_before = /\ ev.gesture # None
                                           /\ ev.gesture[1].right_button,
                           !.acted_before = /\ ev.gesture # None
                                            /\ ev.gesture[1].action # None,
                           !.after_release = /\ ev.gesture # None
                                             /\ Released(ev.gesture[1])
                                             /\ ev.gesture[1].before.directions # << >> ]

Tick(in) ==
    /\ ~crashed
    /\ ticks < budget
    /\ in.available = window
    /\ Commit(Frame(Self, in))
    /\ ticks' = ticks + 1
    /\ UNCHANGED << window, budget >>

(***************************************************************************)
(* ImageViewer::new: the state after construction.                         *)
(***************************************************************************)
New(mode, initial_image, available_size, alloc_ok, dir) ==
    LET viewer == [ initial_display_mode |-> mode,
                    current_image        |-> None,
                    current_path         |-> None,
                    image_size           |-> None,
                    scale                |-> I(1),
                    pan_offset           |-> VZero,
                    image_paths          |-> << >>,
                    last_available_size  |-> None,
                    mouse_gesture        |-> MouseGestureNew,
                    crashed              |-> FALSE,
                    fits                 |-> << >>,
                    loads                |-> << >>,
                    lists                |-> << >>,
                    navs                 |-> << >> ]
    IN  IF initial_image # None
        THEN update_image_list(
                 load_image(viewer, initial_image[1], available_size, alloc_ok).self,
                 initial_image[1], dir)
        ELSE viewer

(***************************************************************************)
(* The environment's choices                                               *)
(***************************************************************************)
Modes      == { "fit", "original" }
Availables == { V(800, 600), V(200, 150) }
Cursor     == V(100, 124)
DragDelta  == V(30, -12)

\* frames per run
MaxTicks      == 2
MaxZoomTicks  == 2
MaxCacheTicks == 3

Base ==
    [ dropped |-> None, open_clicked |-> FALSE, picked |-> None, mode_sel |-> None,
      dir |-> Some(Files), available |-> window, key |-> "None", zoom_key |-> "None",
      dragged |-> FALSE, drag_delta |-> VZero, secondary_down |-> FALSE,
      scroll_delta |-> I(0), hover_pos |-> None, pointer_pos |-> None,
      alloc_ok |-> TRUE, render_alloc_ok |-> TRUE, overflow_checks |-> FALSE ]

\* the variables after ImageViewer::new
Is(v) ==
    /\ initial_display_mode = v.initial_display_mode
    /\ current_image        = v.current_image
    /\ current_path         = v.current_path
    /\ image_size           = v.image_size
    /\ scale                = v.scale
    /\ pan_offset           = v.pan_offset
    /\ image_paths          = v.image_paths
    /\ last_available_size  = v.last_available_size
    /\ mouse_gesture        = v.mouse_gesture
    /\ crashed              = v.crashed
    /\ ev = [ NoEv EXCEPT !.fits = v.fits, !.loads = v.loads, !.lists = v.lists,
                          !.e2e = IF E2ELoaded(v.current_image, v.scale)
                                  THEN [ loaded |-> TRUE, stage |-> 1 ]
                                  ELSE [ loaded |-> FALSE, stage |-> 0 ] ]

Constructed(mode, initial_image, alloc_ok) ==
    Is(New(mode, initial_image, window, alloc_ok, Some(Files)))

\* the window is resized between two frames
ResizeWindow ==
    /\ ~crashed
    /\ \E a \in Availables : a # window /\ window' = a
    /\ UNCHANGED << initial_display_mode, current_image, current_path, image_size, scale,
                    pan_offset, image_paths, last_available_size, mouse_gesture, crashed,
                    ticks, budget, ev >>

\* a frame with no input
TickIdle ==
    \E render_ok \in BOOLEAN :
        Tick([ Base EXCEPT !.render_alloc_ok = render_ok ])

\* a file is dropped on the window; Pixmap::new may fail
DropFiles == { 1, 2, 3, 4, 6 }

TickDrop ==
    \E p \in DropFiles, ok \in BOOLEAN :
        Tick([ Base EXCEPT !.dropped = Some(p), !.alloc_ok = ok ])

\* a Display Mode radio button is chosen
TickMode ==
    \E m \in Modes : Tick([ Base EXCEPT !.mode_sel = Some(m) ])

\* the 'fit' key (F) or the '100%' key (0)
TickResetKey ==
    \E k \in { "F", "Num0" } : Tick([ Base EXCEPT !.key = k ])

\* keyboard zoom, the cursor hovering or not
TickZoomKey ==
    \E z \in { "Plus", "Minus" }, h \in { None, Some(Cursor) } :
        Tick([ Base EXCEPT !.zoom_key = z, !.hover_pos = h, !.pointer_pos = h ])

\* a drag, the secondary button held or not
TickDrag ==
    \E sec \in BOOLEAN :
        Tick([ Base EXCEPT !.dragged = TRUE, !.drag_delta = DragDelta,
                           !.secondary_down = sec,
                           !.hover_pos = Some(Cursor), !.pointer_pos = Some(Cursor) ])

\* wheel zoom (zoom factors 1.5, 0 and -1), the cursor hovering or not
ViewScrollDeltas == { I(500), I(-1000), I(-2000) }

TickWheel ==
    \E w \in ViewScrollDeltas, h \in { None, Some(Cursor) } :
        Tick([ Base EXCEPT !.scroll_delta = w, !.hover_pos = h, !.pointer_pos = h ])

\* several inputs in one frame, the cursor hovering:
\* a reset key or a drag, then a keyboard zoom, then a wheel zoom
TickCombined ==
    \E c \in { << "F", "Plus", I(0), FALSE >>, << "Num0", "None", I(500), FALSE >>,
               << "None", "Plus", I(500), FALSE >>, << "None", "None", I(500), TRUE >>,
               << "None", "Minus", I(0), TRUE >> } :
        Tick([ Base EXCEPT !.key = c[1], !.zoom_key = c[2], !.scroll_delta = c[3],
                           !.dragged = c[4],
                           !.drag_delta = IF c[4] THEN DragDelta ELSE VZero,
                           !.hover_pos = Some(Cursor), !.pointer_pos = Some(Cursor) ])

\* a reset key or a navigation key, then a keyboard zoom, a wheel zoom or both, in
\* one frame, the cursor hovering
TickKeyThenZoom ==
    \E k \in { "F", "Num0", "ArrowRight" },
       z \in { << "Plus", I(0) >>, << "None", I(500) >>, << "Plus", I(500) >> } :
        Tick([ Base EXCEPT !.key = k, !.zoom_key = z[1], !.scroll_delta = z[2],
                           !.hover_pos = Some(Cursor), !.pointer_pos = Some(Cursor) ])

(***************************************************************************)
(* Spec: opening images and fitting them.  The viewer starts with or       *)
(* without an image; then frames with drops, the reset keys, the display   *)
(* mode, keyboard zooms and window resizes.                                *)
(***************************************************************************)
Init ==
    /\ window \in Availables
    /\ \E mode \in Modes, initial_image \in { None } \cup { Some(p) : p \in { 2, 4, 6 } } :
          Constructed(mode, initial_image, TRUE)
    /\ ticks = 0
    /\ budget = MaxTicks

Next ==
    \/ ResizeWindow
    \/ TickIdle
    \/ TickDrop
    \/ TickMode
    \/ TickResetKey
    \/ TickZoomKey

Spec == Init /\ [][Next]_vars

(***************************************************************************)
(* SpecZoom: zooming and panning an image opened at start-up.              *)
(***************************************************************************)
InitZoom ==
    /\ window \in Availables
    /\ \E mode \in Modes, p \in { 1, 2, 4 } : Constructed(mode, Some(p), TRUE)
    /\ ticks = 0
    /\ budget = MaxZoomTicks

NextZoom ==
    \/ TickZoomKey
    \/ TickWheel
    \/ TickDrag
    \/ TickCombined
    \/ TickKeyThenZoom

SpecZoom == InitZoom /\ [][NextZoom]_vars

(***************************************************************************)
(* SpecCache: the rasterisation cache of a vector image.  A vector         *)
(* document is opened at start-up; then frames with wheel zooms (zoom      *)
(* factors 1.5, 76/75, 75/52, 1.04, 1.05, 1.06, 0.94, 0.95), drops and     *)
(* allocations that fail.                                                  *)
(***************************************************************************)
CacheScrollDeltas ==
    { I(500), R(40, 3), R(5750, 13), I(40), I(50), I(60), I(-60), I(-50) }

TickCacheWheel ==
    \E w \in CacheScrollDeltas : Tick([ Base EXCEPT !.scroll_delta = w ])

TickCacheDrop ==
    \E p \in { 1, 6 }, ok \in BOOLEAN :
        Tick([ Base EXCEPT !.dropped = Some(p), !.alloc_ok = ok ])

InitCache ==
    /\ window \in Availables
    /\ \E mode \in Modes : Constructed(mode, Some(1), TRUE)
    /\ ticks = 0
    /\ budget = MaxCacheTicks

NextCache ==
    \/ TickIdle
    \/ TickCacheWheel
    \/ TickCacheDrop

SpecCache == InitCache /\ [][NextCache]_vars

(***************************************************************************)
(* SpecNav: navigation in the directory's list.  The viewer starts with an *)
(* image whose directory could be read or not (a list of 0, 1, 3 or 5      *)
(* entries; the image in it or not); then frames with the arrow keys, in a *)
(* build with or without overflow checks, loads that fail, and drops.      *)
(***************************************************************************)
NavDirs == { None, Some({ 2 }), Some({ 1, 2, 3 }), Some(Files) }

MaxNavTicks == 3

TickNavKey ==
    \E k \in { "ArrowRight", "ArrowLeft" }, ok \in BOOLEAN, checks \in BOOLEAN :
        Tick([ Base EXCEPT !.key = k, !.alloc_ok = ok, !.overflow_checks = checks ])

TickNavDrop ==
    \E p \in { 2, 7 }, d \in NavDirs :
        Tick([ Base EXCEPT !.dropped = Some(p), !.dir = d ])

\* a file that cannot be read is dropped from another directory, which holds
\* that file and one more image
TickNavDropElsewhere ==
    Tick([ Base EXCEPT !.dropped = Some(3), !.dir = Some({ 3, 4 }) ])

InitNav ==
    /\ window \in Availables
    /\ \E mode \in Modes, initial_image \in { 1, 2, 6, 7 }, d \in NavDirs :
          Is(New(mode, Some(initial_image), window, TRUE, d))
    /\ ticks = 0
    /\ budget = MaxNavTicks

NextNav ==
    \/ TickNavKey
    \/ TickNavDrop
    \/ TickNavDropElsewhere

SpecNav == InitNav /\ [][NextNav]_vars

(***************************************************************************)
(* SpecGesture: strokes of the mouse gesture.  An image is displayed; in   *)
(* each frame the trigger button is held or not and the pointer is at one  *)
(* of five points (or outside the window).  From A: E is 10 px to the      *)
(* right, B 30 px, C 60 px; D is 30 px below B.                            *)
(***************************************************************************)
GesturePoints == { V(100, 124), V(130, 124), V(160, 124), V(130, 154), V(110, 124) }

MaxGestureTicks == 7

TickPointer ==
    \E held \in BOOLEAN, p \in { None } \cup { Some(q) : q \in GesturePoints } :
        Tick([ Base EXCEPT !.secondary_down = held, !.pointer_pos = p, !.hover_pos = p ])

InitGesture ==
    /\ window = V(800, 600)
    /\ Is(New("original", Some(2), window, TRUE, Some({ 1, 2 })))
    /\ ticks = 0
    /\ budget = MaxGestureTicks

NextGesture == TickPointer

SpecGesture == InitGesture /\ [][NextGesture]_vars

(***************************************************************************)
(* SpecResize: the resize check.  The viewer starts with or without an     *)
(* image; then the window is resized between frames with drags, keyboard   *)
(* zooms and changes of the display mode.                                  *)
(***************************************************************************)
MaxResizeTicks == 3

InitResize ==
    /\ window \in Availables
    /\ \E mode \in Modes, initial_image \in { None, Some(2), Some(4) } :
          Constructed(mode, initial_image, TRUE)
    /\ ticks = 0
    /\ budget = MaxResizeTicks

NextResize ==
    \/ ResizeWindow
    \/ TickIdle
    \/ TickMode
    \/ TickZoomKey
    \/ TickDrag

SpecResize == InitResize /\ [][NextResize]_vars

(***************************************************************************)
(* SpecProgress: the same navigation key pressed again and again.  An      *)
(* image of a directory of 2, 3 or 5 entries is displayed (entry 3 cannot  *)
(* be decoded); every frame presses the key the frame before it pressed.   *)
(* The frames are counted modulo MaxProgressTicks + 1, and the key is       *)
(* pressed for ever: the event loop keeps calling update, so the count of  *)
(* frames keeps advancing (a step that advances it is a PressAgain step).  *)
(***************************************************************************)
MaxProgressTicks == 3

ProgressDirs == { Some({ 1, 2 }), Some({ 1, 2, 3 }), Some(Files) }

PressAgain ==
    /\ ~crashed
    /\ \E k \in { "ArrowRight", "ArrowLeft" } :
          /\ ev.key \in { "None", k }
          /\ Commit(Frame(Self, [ Base EXCEPT !.key = k ]))
    /\ ticks' = (ticks + 1) % (budget + 1)
    /\ UNCHANGED << window, budget >>

InitProgress ==
    /\ window \in Availables
    /\ \E mode \in Modes, initial_image \in { 1, 2, 4, 6 }, d \in ProgressDirs :
          Is(New(mode, Some(initial_image), window, TRUE, d))
    /\ ticks = 0
    /\ budget = MaxProgressTicks

NextProgress == PressAgain

FrameCounted == ticks' = (ticks + 1) % (budget + 1)

SpecProgress == InitProgress /\ [][NextProgress]_vars /\ WF_ticks(FrameCounted)

(***************************************************************************)
(* C1.  In every reachable state of the viewer (after image load, fit on   *)
(* load or resize, the 'fit' and '100%' keys, keyboard and wheel zoom, in  *)
(* any order) scale lies within [0.1, 10.0].                               *)
(* fit_to_screen assigns the fit scale without clamping it, so the state   *)
(* after fitting a 16x16 image into 800x600 has scale 37.5.                *)
(***************************************************************************)
ScaleWithinClampBounds == RLe(ScaleMin, scale) /\ RLe(scale, ScaleMax)

(***************************************************************************)
(* C6.  For every image size (w,h) and available size (W,H), each          *)
(* fit_to_screen call sets scale = min(W/w, H/h): w*scale <= W and         *)
(* h*scale <= H, with one of the two equal to its bound; and a frame whose *)
(* last change of scale is a fit ends with that scale.                     *)
(***************************************************************************)
FitCallCorrect(f) ==
    LET w == I(f.size[1])
        h == I(f.size[2])
        W == f.available[1]
        H == f.available[2]
    IN  /\ f.scale = RMin(RDiv(W, w), RDiv(H, h))
        /\ RLe(RMul(w, f.scale), W)
        /\ RLe(RMul(h, f.scale), H)
        /\ (RMul(w, f.scale) = W \/ RMul(h, f.scale) = H)

FitIsLastScaleChange ==
    /\ ev.fits # << >>
    /\ ev.kz = None /\ ev.wz = None /\ ev.action = None
    /\ ev.key \in { "None", "F", "Escape" }

FitToWindowCorrect ==
    /\ \A i \in 1..Len(ev.fits) : FitCallCorrect(ev.fits[i])
    /\ FitIsLastScaleChange => scale = ev.fits[Len(ev.fits)].scale

\* a fit bound by the width (image wider than the window) has set the scale in a frame
FitBoundByWidthReached ==
    /\ ticks > 0
    /\ FitIsLastScaleChange
    /\ LET f == ev.fits[Len(ev.fits)]
       IN  /\ RMul(I(f.size[1]), scale) = f.available[1]
           /\ RLt(RMul(I(f.size[2]), scale), f.available[2])

(***************************************************************************)
(* The image-space point under a screen position: the position relative    *)
(* to the image's top-left corner (line 743), in texture pixels.           *)
(***************************************************************************)
ImagePoint(anchor, available_size, texture_size, s, pan) ==
    VDiv(VSub(anchor, Placement(available_size, VMul(texture_size, s), pan)), s)

ViewportCenter(available_size) == VAdd(RectMin, VHalf(available_size))

InClampRange(s) == RLe(ScaleMin, s) /\ RLe(s, ScaleMax)

\* the zoom is the only thing of its frame that changed the scale or the image
\* since the image was placed
ZoomActsAlone(z) ==
    /\ z.scale_drawn = z.scale_before
    /\ ev.key \notin { "ArrowLeft", "ArrowRight", "O" }
    /\ (ev.kz = None \/ ev.wz = None)

(***************************************************************************)
(* C2.  Every zoom operation (keyboard '+', keyboard '-', mouse wheel with *)
(* any scroll delta, also one that makes the zoom factor zero or negative) *)
(* leaves scale within [0.1, 10.0], whatever the scale before it.          *)
(***************************************************************************)
ZoomLeavesScaleInRange ==
    /\ ev.kz # None => InClampRange(ev.kz[1].scale_after)
    /\ ev.wz # None => InClampRange(ev.wz[1].scale_after)
    /\ (ev.kz # None \/ ev.wz # None) /\ ev.action = None => InClampRange(scale)

\* a wheel zoom with a negative zoom factor, from a scale above 10
NegativeWheelFromOutOfRangeReached ==
    /\ ev.wz # None
    /\ RLt(RAdd(I(1), RMul(ev.wz[1].scroll_delta, WheelZoomFactor)), I(0))
    /\ RLt(ScaleMax, ev.wz[1].scale_before)
    /\ scale = ScaleMin

KeyZoomKeepsPointUnderCursor ==
    ev.kz # None /\ ev.kz[1].hover_pos # None /\ ZoomActsAlone(ev.kz[1]) =>
        LET z == ev.kz[1]
            c == z.hover_pos[1]
        IN  ImagePoint(c, window, z.texture_size, z.scale_before, z.pan_before)
            = ImagePoint(c, window, z.texture_size, z.scale_after, z.pan_after)

(***************************************************************************)
(* C4, amended.  A keyboard '+' or '-' zoom anchors on the centre of the   *)
(* available drawing area, whether or not a cursor is hovering: the        *)
(* image-space point under the centre is the same before and after.        *)
(***************************************************************************)
KeyZoomKeepsPointUnderCenter ==
    ev.kz # None =>
        LET z == ev.kz[1]
            c == ViewportCenter(window)
        IN  ImagePoint(c, window, z.texture_size, z.scale_before, z.pan_before)
            = ImagePoint(c, window, z.texture_size, z.scale_after, z.pan_after)

\* a keyboard zoom that changed the scale of a panned image, the cursor hovering
KeyZoomWithCursorReached ==
    /\ ev.kz # None /\ ev.kz[1].hover_pos # None
    /\ ev.kz[1].pan_before # VZero
    /\ ev.kz[1].scale_after # ev.kz[1].scale_before

(***************************************************************************)
(* C5.  A wheel zoom while no cursor is hovering keeps the image-space     *)
(* point under the centre of the available drawing area, for any           *)
(* pan_offset.                                                             *)
(***************************************************************************)
WheelZoomNoCursorKeepsPointUnderCenter ==
    ev.wz # None /\ ev.wz[1].hover_pos = None /\ ZoomActsAlone(ev.wz[1]) =>
        LET z == ev.wz[1]
            c == ViewportCenter(window)
        IN  ImagePoint(c, window, z.texture_size, z.scale_before, z.pan_before)
            = ImagePoint(c, window, z.texture_size, z.scale_after, z.pan_after)

(***************************************************************************)
(* C7.  In each frame with a vector image loaded, the re-rasterisation is  *)
(* triggered if and only if |scale - last_scale| > 0.05 * last_scale: a    *)
(* scale of last_scale * 1.04, * 1.05 or * 0.95 does not trigger it,       *)
(* last_scale * 1.06 and * 0.94 do; a triggered re-rasterisation that      *)
(* succeeds sets last_scale to the scale.                                  *)
(***************************************************************************)
OutsideBand(s, last) == RLt(RMul(last, R(5, 100)), RAbs(RSub(s, last)))

IsCeil(n, x) == RLe(x, I(n)) /\ RLt(I(n - 1), x)

CacheMatchesLastScale ==
    current_image # None /\ current_image[1].kind = "Svg" =>
        LET image == current_image[1] IN
        /\ image.texture.rendered_scale = image.last_scale
        /\ IsCeil(image.texture.size[1], RMul(I(image.original_size[1]), image.last_scale))
        /\ IsCeil(image.texture.size[2], RMul(I(image.original_size[2]), image.last_scale))
        /\ ev.loads # << >> /\ ev.loads[Len(ev.loads)].result /\ ev.rr # None
           /\ ev.action = None /\ ev.key = "None"
             => /\ ev.rr[1].before.last_scale = I(1)
                /\ ev.rr[1].before.texture.size = ev.rr[1].before.original_size

\* a cached bitmap whose size was rounded up, after a failed allocation
RoundedUpCacheReached ==
    /\ current_image # None /\ current_image[1].kind = "Svg"
    /\ RLt(RMul(I(current_image[1].original_size[1]), current_image[1].last_scale),
           I(current_image[1].texture.size[1]))
    /\ ev.after_failure

(***************************************************************************)
(* C9.  When a triggered re-rasterisation cannot allocate the bitmap, the  *)
(* cached bitmap and last_scale are left unchanged and the frame draws the *)
(* previous bitmap, without a crash; the next frame attempts the           *)
(* re-rasterisation again if the scale is still outside the band.          *)
(***************************************************************************)
RerenderFailureKeepsCache ==
    /\ ev.rr # None /\ ev.rr[1].triggered
       /\ ~PixmapNew(RenderSize(ev.rr[1].before.original_size, ev.rr[1].scale)[1],
                     RenderSize(ev.rr[1].before.original_size, ev.rr[1].scale)[2],
                     ev.rr[1].alloc_ok)
         => /\ ev.rr[1].after = ev.rr[1].before
            /\ ev.drawn # None /\ ev.drawn[1].texture = ev.rr[1].before.texture
            /\ ~crashed
    /\ ev.after_failure /\ ev.rr # None
       /\ OutsideBand(ev.rr[1].scale, ev.rr[1].before.last_scale)
         => ev.rr[1].triggered

\* a failed re-render is attempted again in the next frame, and succeeds
RetryAfterFailureReached ==
    /\ ev.after_failure
    /\ ev.rr # None /\ ev.rr[1].triggered
    /\ ev.rr[1].after.texture # ev.rr[1].before.texture

(***************************************************************************)
(* C10.  As claimed: with a vector document of intrinsic size 100x100      *)
(* loaded at scale 1.0, once the scale has been raised to 1.5 and a frame  *)
(* runs (its allocation succeeding), the cache holds a 150x150 bitmap      *)
(* with last_scale = 1.5.                                                  *)
(***************************************************************************)
ScaleRaisedGivesRerender ==
    ev.e2e.loaded /\ ev.rr # None /\ ev.rr[1].scale = R(3, 2) /\ ev.rr[1].alloc_ok =>
        /\ current_image[1].texture.size = << 150, 150 >>
        /\ current_image[1].last_scale = R(3, 2)

(***************************************************************************)
(* C10, amended.  Loading a vector document of intrinsic size 100x100 at   *)
(* scale 1.0 yields a 100x100 bitmap with last_scale = 1.0; once the scale *)
(* has been raised to 1.5 with the cache untouched since the load          *)
(* (last_scale still 1.0) and a frame runs whose allocation succeeds, the  *)
(* cache holds a 150x150 bitmap with last_scale = 1.5; a further zoom to   *)
(* 1.52 causes no re-render: still the 150x150 bitmap, last_scale = 1.5.   *)
(***************************************************************************)
E2ECacheTrace ==
    /\ ev.e2e.stage = 1 =>
          /\ current_image[1].texture = Texture(<< 100, 100 >>, I(1))
          /\ current_image[1].last_scale = I(1)
    /\ ev.e2e.stage \in { 2, 3 } =>
          /\ current_image[1].texture = Texture(<< 150, 150 >>, R(3, 2))
          /\ current_image[1].last_scale = R(3, 2)
    /\ ev.e2e.stage = 3 /\ ev.rr[1].scale = R(152, 100) =>
          /\ ~ev.rr[1].triggered
          /\ ev.drawn[1].texture = Texture(<< 150, 150 >>, R(3, 2))
          /\ ev.drawn[1].scaled_size = VMul(V(150, 150), R(152, 100))

\* the whole scenario has run: the frame that saw scale 1.52 after the re-render at 1.5
E2EScenarioReached ==
    /\ ev.e2e.stage = 3
    /\ ev.rr[1].scale = R(152, 100)
    /\ scale = R(152, 100)

(***************************************************************************)
(* C11.  When a load_image call fails, the image displayed and the view    *)
(* state (scale, pan_offset, image_size, current path) are after the call  *)
(* exactly what they were before it.                                       *)
(***************************************************************************)
FailedLoadKeepsView ==
    \A i \in 1..Len(ev.loads) :
        ~ev.loads[i].result => ev.loads[i].after = ev.loads[i].before

(***************************************************************************)
(* C12.  With an image displayed and an empty navigation list, 'navigate   *)
(* next' and 'navigate previous' are no-ops: no load is attempted, nothing *)
(* changes, and the target index is computed without a panic and without   *)
(* an integer underflow.                                                   *)
(***************************************************************************)
EmptyListNavigationIsNoOp ==
    \A i \in 1..Len(ev.navs) :
        LET nav == ev.navs[i] IN
        nav.paths = << >> /\ nav.view_before.current_image # None =>
            /\ ~nav.loaded
            /\ nav.view_after = nav.view_before
            /\ nav.paths_after = nav.paths
            /\ ~nav.crashed
            /\ nav.new_index # UsizeMax

(***************************************************************************)
(* C13.  For a navigation list of length n > 0 with the current image at   *)
(* index i, 'navigate next' targets index (i+1) mod n and 'navigate        *)
(* previous' index (i-1+n) mod n, and the entry at that index is the one   *)
(* loaded.                                                                 *)
(***************************************************************************)
AtIndex(nav) ==
    /\ nav.paths # << >>
    /\ nav.paths[nav.current_index + 1] = nav.current_path[1]

NavigationWraps ==
    \A k \in 1..Len(ev.navs) :
        LET nav == ev.navs[k]
            n   == Len(nav.paths)
            i   == nav.current_index
        IN  AtIndex(nav) =>
              /\ nav.new_index = IF nav.next THEN (i + 1) % n ELSE (i - 1 + n) % n
              /\ nav.target = Some(nav.paths[nav.new_index + 1])
              /\ ~nav.crashed

\* 'previous' from the first of three or more entries went to the last one
PreviousWrappedToLastReached ==
    \E k \in 1..Len(ev.navs) :
        /\ AtIndex(ev.navs[k])
        /\ ~ev.navs[k].next
        /\ ev.navs[k].current_index = 0
        /\ Len(ev.navs[k].paths) >= 3
        /\ ev.navs[k].new_index = Len(ev.navs[k].paths) - 1

(***************************************************************************)
(* C14.  After a navigation whose target fails to load, the current path   *)
(* (and so its index in the list) and the navigation list are what they    *)
(* were before, and the current path still is the path of the image        *)
(* displayed.                                                              *)
(***************************************************************************)
FailedNavigationKeepsPosition ==
    \A k \in 1..Len(ev.navs) :
        LET nav == ev.navs[k] IN
        nav.loaded /\ ~nav.result =>
            /\ nav.view_after.current_path = nav.view_before.current_path
            /\ nav.paths_after = nav.paths
            /\ nav.view_after.current_image = nav.view_before.current_image
            /\ nav.view_after.current_image # None =>
                  nav.view_after.current_image[1].path = nav.view_after.current_path[1]

\* a navigation from a displayed image to an entry that does not load
FailedNavigationReached ==
    \E k \in 1..Len(ev.navs) :
        /\ ev.navs[k].loaded /\ ~ev.navs[k].result
        /\ AtIndex(ev.navs[k])
        /\ ev.navs[k].target # ev.navs[k].current_path
        /\ ev.navs[k].view_before.current_image # None

(***************************************************************************)
(* C15.  When update_image_list cannot read the parent directory, the      *)
(* navigation list keeps exactly its previous contents, and the viewer     *)
(* goes on (the frame draws the image, no panic).                          *)
(***************************************************************************)
DirectoryReadFailureKeepsList ==
    \A k \in 1..Len(ev.lists) :
        ~ev.lists[k].read_ok =>
            /\ ev.lists[k].after = ev.lists[k].before
            /\ k = Len(ev.lists) => image_paths = ev.lists[k].before
            /\ ~crashed
            /\ ticks > 0 /\ current_image # None => ev.drawn # None

\* in a frame, the directory of a dropped and loaded file could not be read while
\* the list had entries
ReadFailureWithListReached ==
    /\ ticks > 0
    /\ ev.lists # << >>
    /\ ~ev.lists[Len(ev.lists)].read_ok
    /\ ev.lists[Len(ev.lists)].before # << >>
    /\ ev.loads # << >> /\ ev.loads[1].result
    /\ ev.drawn # None

(***************************************************************************)
(* C16.  On release of the trigger button the gesture resolves to          *)
(* 'navigate previous' exactly when the directions recorded are [Left],    *)
(* to 'navigate next' exactly when they are [Right], and to no action for  *)
(* every other sequence; the frame navigates accordingly.                  *)
(***************************************************************************)
ReleaseResolvesSingleHorizontal ==
    ev.gesture # None /\ Released(ev.gesture[1]) =>
        LET gr == ev.gesture[1] IN
        /\ gr.action \in { None, Some("<<<"), Some(">>>") }
        /\ gr.action = Some("<<<") <=> gr.before.directions = << "Left" >>
        /\ gr.action = Some(">>>") <=> gr.before.directions = << "Right" >>
        /\ gr.before.directions \in { << >>, << "Up" >>, << "Down" >> } => gr.action = None
        /\ Len(gr.before.directions) >= 2 => gr.action = None
        /\ gr.action = None => ev.navs = << >>
        /\ gr.action = Some("<<<") => Len(ev.navs) = 1 /\ ~ev.navs[1].next
        /\ gr.action = Some(">>>") => Len(ev.navs) = 1 /\ ev.navs[1].next

\* a release with [Left] recorded navigated to the previous image
LeftSwipeReleasedReached ==
    /\ ev.gesture # None /\ Released(ev.gesture[1])
    /\ ev.gesture[1].before.directions = << "Left" >>
    /\ ev.gesture[1].action = Some("<<<")
    /\ Len(ev.navs) = 1 /\ ev.navs[1].loaded

(***************************************************************************)
(* C17.  A stroke of one or more samples after the press, each at least    *)
(* 20 px to the right of the sample before it, yields on release exactly   *)
(* 'navigate next'; a stroke in which two perpendicular segments were      *)
(* recorded yields no action on release, whatever samples followed.        *)
(***************************************************************************)
StrokeDeterminesAction ==
    ev.gesture # None /\ Released(ev.gesture[1]) =>
        /\ ev.stroke.samples >= 1 /\ ev.stroke.all_right =>
              /\ ev.gesture[1].action = Some(">>>")
              /\ Len(ev.navs) = 1 /\ ev.navs[1].next
        /\ ev.stroke.perpendicular =>
              /\ ev.gesture[1].action = None
              /\ ev.navs = << >>

\* a stroke of two or more rightward samples was released
TwoRightwardSamplesReleasedReached ==
    /\ ev.gesture # None /\ Released(ev.gesture[1])
    /\ ev.stroke.samples = 2 /\ ev.stroke.all_right
    /\ ev.gesture[1].action = Some(">>>")

(***************************************************************************)
(* C18.  In every reachable state the directions recorded hold no two      *)
(* consecutive equal entries and are at most 5.                            *)
(***************************************************************************)
DirectionsDistinctAndBounded ==
    /\ Len(mouse_gesture.directions) <= 5
    /\ \A i \in 1..(Len(mouse_gesture.directions) - 1) :
          mouse_gesture.directions[i] # mouse_gesture.directions[i + 1]

\* with 5 directions recorded, a segment of another direction was sampled and dropped
SixthSegmentDroppedReached ==
    /\ ev.gesture # None /\ Sampled(ev.gesture[1])
    /\ Len(ev.gesture[1].before.directions) = 5
    /\ LengthAtLeast(VSub(ev.gesture[1].mouse_pos, ev.gesture[1].before.last_pos[1]), threshold)
    /\ Direction(VSub(ev.gesture[1].mouse_pos, ev.gesture[1].before.last_pos[1]))
          # ev.gesture[1].before.directions[5]
    /\ mouse_gesture.directions = ev.gesture[1].before.directions

(***************************************************************************)
(* C19.  After every release of the trigger button while tracking, with or *)
(* without an action, the gesture is in its initial state (not active, no  *)
(* last sample, no directions); a press then starts tracking with no       *)
(* direction carried over.                                                 *)
(***************************************************************************)
ReleaseResetsGesture ==
    /\ ~mouse_gesture.is_active =>
          mouse_gesture = [ is_active |-> FALSE, last_pos |-> None, directions |-> << >> ]
    /\ ev.gesture # None /\ Released(ev.gesture[1]) =>
          /\ ev.gesture[1].after
                = [ is_active |-> FALSE, last_pos |-> None, directions |-> << >> ]
          /\ mouse_gesture = ev.gesture[1].after
    /\ ev.gesture # None /\ Pressed(ev.gesture[1]) =>
          ev.gesture[1].after = [ is_active  |-> TRUE,
                                  last_pos   |-> Some(ev.gesture[1].mouse_pos),
                                  directions |-> << >> ]

\* a press in the frame after the release of a gesture that had recorded directions
PressAfterReleaseReached ==
    /\ ev.after_release
    /\ ev.gesture # None /\ Pressed(ev.gesture[1])
    /\ mouse_gesture.is_active

(***************************************************************************)
(* C20.  Panning and gesture recognition exclude each other: in a frame    *)
(* with the secondary button held a drag does not change pan_offset (and   *)
(* the gesture is tracking); in a frame with a drag and the button not     *)
(* held, the pan adds exactly the drag delta to pan_offset, leaves the     *)
(* scale alone, and no gesture is tracking.                                *)
(***************************************************************************)
PanExcludesGesture ==
    ev.drag # None =>
        LET d == ev.drag[1] IN
        /\ d.secondary_down =>
              /\ d.pan_after = d.pan_before
              /\ mouse_gesture.is_active
        /\ ~d.secondary_down =>
              /\ d.pan_after = VAdd(d.pan_before, d.delta)
              /\ d.scale_after = d.scale_before
              /\ ~mouse_gesture.is_active

\* a drag without the button panned a view that was already panned
DragPannedAgainReached ==
    /\ ev.drag # None
    /\ ~ev.drag[1].secondary_down
    /\ ev.drag[1].pan_before # VZero
    /\ ev.drag[1].delta # VZero
    /\ pan_offset = VAdd(ev.drag[1].pan_before, ev.drag[1].delta)

(***************************************************************************)
(* C21.  The 'fit' key sets pan_offset = (0,0) and scale to the            *)
(* fit-to-window scale of the displayed image, and the '100%' key sets     *)
(* pan_offset = (0,0) and scale = 1.0, both in the one step of the key     *)
(* handling and from any scale and pan_offset before it.                   *)
(***************************************************************************)
ResetKeysResetView ==
    ev.keyed # None /\ ev.keyed[1].key \in { "F", "Num0" } =>
        /\ ev.keyed[1].after.pan_offset = VZero
        /\ ev.keyed[1].after.scale =
               IF ev.keyed[1].key = "F"
               THEN FitScale(IntrinsicSize(ev.keyed[1].before.current_image[1]),
                             ev.keyed[1].available)
               ELSE I(1)

(***************************************************************************)
(* C22.  A fit-to-window recomputation caused by a change of the available *)
(* drawing area in 'fit' mode changes only scale: pan_offset, the loaded   *)
(* image (with its path and size), the navigation list and the gesture     *)
(* state are after the resize check what they were before it.              *)
(***************************************************************************)
AreaChanged(r) ==
    /\ r.before.initial_display_mode = "fit"
    /\ r.before.last_available_size # None
    /\ r.before.last_available_size[1] # r.available

ResizeFitChangesOnlyScale ==
    ev.resize # None /\ AreaChanged(ev.resize[1]) =>
        /\ ev.resize[1].after.pan_offset    = ev.resize[1].before.pan_offset
        /\ ev.resize[1].after.current_image = ev.resize[1].before.current_image
        /\ ev.resize[1].after.current_path  = ev.resize[1].before.current_path
        /\ ev.resize[1].after.image_size    = ev.resize[1].before.image_size
        /\ ev.resize[1].after.image_paths   = ev.resize[1].before.image_paths
        /\ ev.resize[1].after.mouse_gesture = ev.resize[1].before.mouse_gesture

\* a resize in 'fit' mode has changed the scale of a panned image
ResizeOfPannedImageReached ==
    /\ ev.resize # None
    /\ AreaChanged(ev.resize[1])
    /\ ev.resize[1].before.pan_offset # VZero
    /\ ev.resize[1].before.current_image # None
    /\ ev.resize[1].after.scale # ev.resize[1].before.scale

(***************************************************************************)
(* C24.  The resize check of a frame calls fit_to_screen exactly when the  *)
(* mode is 'fit' and the measured available size differs from the          *)
(* last-seen size or no size has been seen yet; it then sets scale to the  *)
(* fit scale for the measured size and records that size.  In every other  *)
(* frame the check leaves scale and the last-seen size alone: with an      *)
(* unchanged size a manual zoom persists, and outside 'fit' mode a resize  *)
(* does not change scale.                                                  *)
(***************************************************************************)
SizeIsNew(r) ==
    \/ r.before.last_available_size = None
    \/ r.before.last_available_size[1] # r.available

ResizeCheckOf(r) ==
    IF r.before.initial_display_mode = "fit" /\ SizeIsNew(r)
    THEN /\ r.after.last_available_size = Some(r.available)
         /\ IF r.before.image_size # None
            THEN /\ r.after.scale = FitScale(r.before.image_size[1], r.available)
                 /\ Len(r.after.fits) = Len(r.before.fits) + 1
            ELSE r.after.scale = r.before.scale
    ELSE /\ r.after.scale = r.before.scale
         /\ r.after.last_available_size = r.before.last_available_size
         /\ r.after.fits = r.before.fits

ResizeCheckFitsExactlyOnNewSize ==
    ev.resize # None => ResizeCheckOf(ev.resize[1])

\* a frame in 'fit' mode with the size unchanged has kept a manual zoom
ManualZoomPersistedReached ==
    /\ ev.resize # None
    /\ ev.resize[1].before.initial_display_mode = "fit"
    /\ ev.resize[1].before.last_available_size = Some(ev.resize[1].available)
    /\ ev.resize[1].before.image_size # None
    /\ ev.resize[1].before.scale #
           FitScale(ev.resize[1].before.image_size[1], ev.resize[1].available)
    /\ ev.resize[1].after.scale = ev.resize[1].before.scale

(***************************************************************************)
(* C23.  While tracking, a sample nearer than the threshold (20 px) to     *)
(* last_sample leaves last_sample and the directions unchanged.  A sample  *)
(* at the threshold or farther becomes last_sample; it is Right or Left    *)
(* when |dx| > |dy| and Down or Up otherwise (a tie |dx| = |dy| is         *)
(* vertical); and that direction is appended exactly when it differs from  *)
(* the last entry and fewer than 5 entries are recorded.                   *)
(***************************************************************************)
SampleDelta(gr) == VSub(gr.mouse_pos, gr.before.last_pos[1])

SquaredLength(delta) == RAdd(RMul(delta[1], delta[1]), RMul(delta[2], delta[2]))

ClassOf(delta) ==
    IF RLt(RAbs(delta[2]), RAbs(delta[1]))
    THEN (IF RLt(I(0), delta[1]) THEN "Right" ELSE "Left")
    ELSE (IF RLt(I(0), delta[2]) THEN "Down" ELSE "Up")

Appends(directions, dir) ==
    /\ Len(directions) < 5
    /\ (directions = << >> \/ directions[Len(directions)] # dir)

SampleOf(gr) ==
    IF RLt(SquaredLength(SampleDelta(gr)), I(20 * 20))
    THEN /\ gr.after.last_pos = gr.before.last_pos
         /\ gr.after.directions = gr.before.directions
    ELSE /\ gr.after.last_pos = Some(gr.mouse_pos)
         /\ gr.after.directions =
                IF Appends(gr.before.directions, ClassOf(SampleDelta(gr)))
                THEN Append(gr.before.directions, ClassOf(SampleDelta(gr)))
                ELSE gr.before.directions

SampleClassified ==
    ev.gesture # None /\ Sampled(ev.gesture[1]) /\ ev.gesture[1].before.last_pos # None =>
        /\ SampleOf(ev.gesture[1])
        /\ ev.gesture[1].after.is_active
        /\ ev.gesture[1].action = None

\* a sample on the diagonal (|dx| = |dy|) was appended as a vertical direction
\* after a horizontal one
DiagonalSampleVerticalReached ==
    /\ ev.gesture # None
    /\ Sampled(ev.gesture[1])
    /\ ev.gesture[1].before.last_pos # None
    /\ RAbs(SampleDelta(ev.gesture[1])[1]) = RAbs(SampleDelta(ev.gesture[1])[2])
    /\ SampleDelta(ev.gesture[1])[1] # I(0)
    /\ ev.gesture[1].before.directions # << >>
    /\ ev.gesture[1].after.directions = Append(ev.gesture[1].before.directions, "Down")

(***************************************************************************)
(* C29.  The recognizer returns an action only in the frame where the      *)
(* trigger button goes from held to released, and at most once per         *)
(* press-release cycle: none while the button is held, none in the frame   *)
(* of the press, none while idle, and none in the frame after one was      *)
(* returned.                                                               *)
(***************************************************************************)
ActionOnlyOnRelease ==
    ev.gesture # None =>
        /\ ev.gesture[1].action # None =>
              /\ ev.held_before
              /\ ~ev.gesture[1].right_button
              /\ ev.gesture[1].before.is_active
              /\ ~ev.gesture[1].after.is_active
              /\ ~ev.acted_before
        /\ ev.action = ev.gesture[1].action

\* a release returned an action, and the frame after it, the button still up, none
IdleAfterActionReached ==
    /\ ev.gesture # None
    /\ ev.acted_before
    /\ ~ev.gesture[1].right_button
    /\ ev.gesture[1].action = None

(***************************************************************************)
(* C25.  In every frame, for raster and vector images, the size of the     *)
(* rectangle the image is placed in is the image's intrinsic size times    *)
(* the current scale, up to one pixel of the cached bitmap, whatever the   *)
(* scale the cached vector bitmap was rasterized at.                       *)
(***************************************************************************)
WithinOnePixel(drawn, intrinsic, s) ==
    RLe(RAbs(RSub(drawn, RMul(I(intrinsic), s))), RAbs(s))

PlacementIsIntrinsicTimesScale ==
    ev.drawn # None =>
        /\ WithinOnePixel(ev.drawn[1].scaled_size[1], ev.drawn[1].intrinsic[1],
                          ev.drawn[1].scale)
        /\ WithinOnePixel(ev.drawn[1].scaled_size[2], ev.drawn[1].intrinsic[2],
                          ev.drawn[1].scale)

(***************************************************************************)
(* C26.  Whenever an image is displayed and the navigation list is not     *)
(* empty, the path of the displayed image is an entry of the list, and no  *)
(* navigation over a non-empty list starts from a path that is not in it   *)
(* (the index-0 fallback is never taken).                                  *)
(***************************************************************************)
DisplayedPathIsListed ==
    /\ current_image # None /\ image_paths # << >> =>
          /\ current_path # None
          /\ Position(image_paths, current_path[1]) # None
    /\ \A k \in 1..Len(ev.navs) :
          ev.navs[k].paths # << >> =>
              Position(ev.navs[k].paths, ev.navs[k].current_path[1]) # None

(***************************************************************************)
(* C27.  When a reset key ('fit' or '100%') or a navigation key is handled *)
(* in the same frame before a keyboard zoom or a wheel zoom, the zoom acts *)
(* on the state the key left and keeps the image point under its anchor    *)
(* (the centre of the drawing area for the keys, the cursor for the        *)
(* wheel) where it was in that state: same point of the image for the      *)
(* scale, pan_offset and image size before and after the zoom.             *)
(***************************************************************************)
KeyBeforeZoom ==
    /\ ev.keyed # None
    /\ ev.keyed[1].key \in { "F", "Num0", "ArrowRight", "ArrowLeft" }
    /\ ev.keyed[1].after.current_image # None

PlacedSize == SizeVec(ev.keyed[1].after.current_image[1].texture.size)

KeyZoomAfterKeyKeepsCenter ==
    /\ ev.kz[1].scale_before = ev.keyed[1].after.scale
    /\ ev.kz[1].pan_before = ev.keyed[1].after.pan_offset
    /\ ImagePoint(ViewportCenter(ev.keyed[1].available), ev.keyed[1].available, PlacedSize,
                  ev.kz[1].scale_after, ev.kz[1].pan_after)
         = ImagePoint(ViewportCenter(ev.keyed[1].available), ev.keyed[1].available,
                      PlacedSize, ev.kz[1].scale_before, ev.kz[1].pan_before)

WheelZoomAfterKeyKeepsCursor ==
    ImagePoint(ev.wz[1].hover_pos[1], ev.keyed[1].available, PlacedSize,
               ev.wz[1].scale_after, ev.wz[1].pan_after)
      = ImagePoint(ev.wz[1].hover_pos[1], ev.keyed[1].available, PlacedSize,
                   ev.wz[1].scale_before, ev.wz[1].pan_before)

ZoomAfterKeyKeepsAnchor ==
    KeyBeforeZoom =>
        /\ ev.kz # None => KeyZoomAfterKeyKeepsCenter
        /\ ev.wz # None /\ ev.wz[1].hover_pos # None => WheelZoomAfterKeyKeepsCursor

(***************************************************************************)
(* C28.  If the navigation list holds an entry that can be loaded and is   *)
(* not the displayed image, pressing 'next' again and again (or 'previous' *)
(* again and again) eventually displays another image, also when the       *)
(* entry next to the displayed one cannot be loaded.                       *)
(***************************************************************************)
OtherLoadable(p) ==
    \E i \in 1..Len(image_paths) : image_paths[i] # p /\ FileInfo[image_paths[i]].ok

NavigationReachesAnotherImage ==
    \A p \in Files :
        (current_image # None /\ current_image[1].path = p /\ OtherLoadable(p))
            ~> (current_image # None /\ current_image[1].path # p)

=============================================================================
